---- MODULE Spec2Model ----
(***************************************************************************)
(* Penguin password generator: Penguin::generate_password (lib.rs) and     *)
(* PenguinMixer::mix_password (mixer.rs).                                  *)
(*                                                                         *)
(* A Rust String is modelled as the sequence of its chars; a char is a     *)
(* one-character TLA+ string, except the two-byte char U+00E9 which is     *)
(* written "e_acute".  String::len() is the number of BYTES, computed by   *)
(* len below; Len is the number of chars.                                  *)
(***************************************************************************)
EXTENDS Integers, Sequences, FiniteSets, TLC

\* ---------------------------------------------------------------- bounds
MaxLength == 5      \* largest explicit length argument
MaxWords  == 2      \* largest number of base words
MaxCount  == 2      \* largest count argument
NSeeds    == 4      \* number of distinct seeds of the thread rng
RngMod    == 16     \* number of states of the modelled generator

\* ------------------------------------------------------- character sets
NUMBERS == <<"0","1","2","3","4","5","6","7","8","9">>
SPECIAL_CHARS == <<"!","@","#","$","%","^","&","*">>
LOWERCASE == <<"a","b","c","d","e","f","g","h","i","j","k","l","m",
               "n","o","p","q","r","s","t","u","v","w","x","y","z">>
UPPERCASE == <<"A","B","C","D","E","F","G","H","I","J","K","L","M",
               "N","O","P","Q","R","S","T","U","V","W","X","Y","Z">>

\* format!("{}{}{}{}", LOWERCASE, UPPERCASE, NUMBERS, SPECIAL_CHARS).chars().collect()
all_chars == LOWERCASE \o UPPERCASE \o NUMBERS \o SPECIAL_CHARS

Range(s) == {s[i] : i \in 1..Len(s)}

\* ------------------------------------------------------- String / char
\* char::len_utf8: every char of the four sets is ASCII (1 byte); U+00E9 takes 2
len_utf8(c) == IF c = "e_acute" THEN 2 ELSE 1

\* String::len(): length in bytes
RECURSIVE len(_)
len(s) == IF s = <<>> THEN 0 ELSE len_utf8(s[1]) + len(Tail(s))

\* str::is_char_boundary(index)
is_char_boundary(s, i) == \E k \in 0..Len(s) : len(SubSeq(s, 1, k)) = i

\* String::truncate(new_len) panics when new_len <= len() is not a char boundary
truncate_panics(s, new_len) == new_len <= len(s) /\ ~is_char_boundary(s, new_len)

\* String::truncate(new_len) on a char boundary: the prefix of new_len bytes
truncate(s, new_len) ==
    IF new_len <= len(s)
    THEN SubSeq(s, 1, CHOOSE k \in 0..Len(s) : len(SubSeq(s, 1, k)) = new_len)
    ELSE s

\* ------------------------------------------------------------ the rng
\* rand::thread_rng(): a deterministic generator seeded by the environment.
\* NextRng is the generator's state transition, GenRange the widening
\* multiply by which gen_range(0..n) maps a generator word onto 0..n-1.
NextRng(r) == (r * 5 + 3) % RngMod
GenRange(r, n) == (r * n) \div RngMod

\* mutant: a swap that only copies one way
Swap_Overwrite(s, i, j) == [s EXCEPT ![i] = s[j]]

\* slice::swap
Swap(s, i, j) == [s EXCEPT ![i] = s[j], ![j] = s[i]]

\* SliceRandom::shuffle: for i in (1..len).rev() { swap(i, gen_range(0..i+1)) }
\* (i is the 0-based index; the sequence is 1-based).  Returns <<seq, rng>>.
RECURSIVE ShuffleFrom(_, _, _)
ShuffleFrom(s, i, r) ==
    IF i < 1 THEN <<s, r>>
    ELSE ShuffleFrom(Swap(s, i + 1, GenRange(r, i + 1) + 1), i - 1, NextRng(r))

shuffle(s, r) == ShuffleFrom(s, Len(s) - 1, r)

\* ------------------------------------------------------ configuration
ComplexityLevel == {"Basic", "Medium", "Hard", "Penguin"}

\* Option<T>: None is <<>>, Some(v) is <<v>>
None == <<>>
Some(v) == <<v>>
unwrap_or(o, d) == IF o = None THEN d ELSE o[1]

\* PenguinMixer::new
PenguinMixer_new(complexity, use_whole_words, length) ==
    [length |-> length, complexity |-> complexity, use_whole_words |-> use_whole_words]

\* impl Default for PenguinMixer
PenguinMixer_default ==
    [length |-> 12, complexity |-> "Medium", use_whole_words |-> TRUE]

\* mutant: the default bundle is taken as soon as one option is unset
ResolveMixer_Bundle(complexity, use_whole_words, length) ==
    IF complexity = None \/ use_whole_words = None \/ length = None
    THEN PenguinMixer_default
    ELSE PenguinMixer_new(complexity[1], use_whole_words[1], length[1])

\* the mixer chosen by the match in generate_password
ResolveMixer(complexity, use_whole_words, length) ==
    IF complexity = None /\ use_whole_words = None /\ length = None
    THEN PenguinMixer_default
    ELSE PenguinMixer_new(unwrap_or(complexity, "Medium"),
                          unwrap_or(use_whole_words, TRUE),
                          unwrap_or(length, 12))

\* base words the model draws its inputs from: the empty word, an ASCII
\* word, a word of one two-byte char
SampleWords == { <<>>, <<"a", "b">>, <<"e_acute">> }

WordLists == UNION { [1..n -> SampleWords] : n \in 0..MaxWords }

NoMixer == [length |-> 0, complexity |-> "Unset", use_whole_words |-> FALSE]

VARIABLES
    base_input,          \* Penguin.base_input
    count,               \* generate_password arguments
    arg_complexity,
    arg_use_whole_words,
    arg_length,
    mixer,               \* the PenguinMixer of the call
    collected,           \* passwords returned so far
    pc,                  \* control position
    rng,                 \* state of the thread rng
    password,            \* the String being built
    available_indices,   \* shuffled 0-based indices into base_input
    index,               \* whole-word loop index
    chars,               \* combined pool of the character-mixing strategy
    password_chars,      \* Vec<char> shuffled for Hard
    iters                \* loop iterations executed in the current mix_password call

vars == <<base_input, count, arg_complexity, arg_use_whole_words, arg_length,
          mixer, collected, pc, rng, password, available_indices, index,
          chars, password_chars, iters>>

args == <<base_input, count, arg_complexity, arg_use_whole_words, arg_length>>
locals == <<password, available_indices, index, chars, password_chars, iters>>

Init ==
    /\ base_input \in WordLists
    /\ count \in {0, 1, MaxCount}
    /\ arg_complexity \in {None} \cup {Some(c) : c \in ComplexityLevel}
    /\ arg_use_whole_words \in {None, Some(TRUE), Some(FALSE)}
    /\ arg_length \in {None} \cup {Some(l) : l \in 0..MaxLength}
    /\ rng \in 0..(NSeeds - 1)
    /\ mixer = NoMixer
    /\ collected = <<>>
    /\ pc = "start"
    /\ password = <<>>
    /\ available_indices = <<>>
    /\ index = 0
    /\ chars = <<>>
    /\ password_chars = <<>>
    /\ iters = 0

\* ------------------------------------------------- generate_password
\* lib.rs 87-96: resolve the mixer
GeneratePassword ==
    /\ pc = "start"
    /\ mixer' = ResolveMixer(arg_complexity, arg_use_whole_words, arg_length)
    /\ pc' = "loop"
    /\ UNCHANGED <<args, collected, rng, locals>>

\* lib.rs 97-101: the loop is over, collected is returned
GenerateReturn ==
    /\ pc = "loop"
    /\ Len(collected) >= count
    /\ pc' = "returned"
    /\ UNCHANGED <<args, mixer, collected, rng, locals>>

\* mutant: the Penguin branch is tested before the empty-input check
MixBranch_PenguinFirst(m, words) ==
    IF m.complexity = "Penguin" THEN "penguin"
    ELSE IF words = <<>> THEN "empty"
    ELSE "regular"

\* mixer.rs 115-124: which branch mix_password takes
MixBranch(m, words) ==
    IF words = <<>> THEN "empty"
    ELSE IF m.complexity = "Penguin" THEN "penguin"
    ELSE "regular"

\* lib.rs 98 calling mixer.rs 115-124
MixPassword ==
    /\ pc = "loop"
    /\ Len(collected) < count
    /\ LET b == MixBranch(mixer, base_input) IN
         /\ pc' = IF b = "empty" THEN "loop" ELSE b
         /\ collected' = IF b = "empty" THEN Append(collected, <<>>) ELSE collected
    /\ password' = <<>>
    /\ password_chars' = <<>>
    /\ available_indices' = <<>>
    /\ chars' = <<>>
    /\ index' = 0
    /\ iters' = 0
    /\ UNCHANGED <<args, mixer, rng>>

\* ------------------------------------------- generate_penguin_password
PenguinLength == 64

\* chars[rng.gen_range(0..chars.len())] / CONST.chars().nth(rng.gen_range(0..CONST.len()))
Pick(set, r) == set[GenRange(r, Len(set)) + 1]

\* mutant: the Penguin loop runs to the configured length
PenguinLoopCond_Length == iters < mixer.length

\* mutant: the Penguin loop runs once more
PenguinLoopCond_OneMore == iters <= PenguinLength

\* mixer.rs 134: for _ in 0..64 has iterations left
PenguinLoopCond == iters < PenguinLength

\* mixer.rs 134-136: one iteration of for _ in 0..64
PenguinStep ==
    /\ pc = "penguin"
    /\ PenguinLoopCond
    /\ password' = Append(password, Pick(all_chars, rng))
    /\ rng' = NextRng(rng)
    /\ iters' = iters + 1
    /\ UNCHANGED <<args, mixer, collected, pc, available_indices, index, chars,
                   password_chars>>

\* mixer.rs 137 returning into lib.rs 98
PenguinReturn ==
    /\ pc = "penguin"
    /\ ~PenguinLoopCond
    /\ collected' = Append(collected, password)
    /\ pc' = "loop"
    /\ UNCHANGED <<args, mixer, rng, locals>>

\* ------------------------------------------- generate_regular_password
\* (0..base_input.len()).collect()
RECURSIVE IndexVec(_)
IndexVec(n) == IF n = 0 THEN <<>> ELSE Append(IndexVec(n - 1), n - 1)

\* for &idx in &available_indices { combined.push_str(base_input[idx]) }
RECURSIVE Combine(_, _)
Combine(words, idxs) ==
    IF idxs = <<>> THEN <<>>
    ELSE words[idxs[1] + 1] \o Combine(words, Tail(idxs))

\* mixer.rs 143-152 (whole words) and 143-145, 197-205 (character mixing)
BeginRegular ==
    /\ pc = "regular"
    /\ LET sh == shuffle(IndexVec(Len(base_input)), rng) IN
         /\ available_indices' = sh[1]
         /\ rng' = sh[2]
         /\ chars' = IF mixer.use_whole_words THEN <<>>
                     ELSE Combine(base_input, sh[1])
    /\ index' = 0
    /\ password' = <<>>
    /\ pc' = IF mixer.use_whole_words THEN "words" ELSE "mix"
    /\ UNCHANGED <<args, mixer, collected, password_chars, iters>>

\* mutant: Medium and Hard push the digit only
Separator_DigitOnly(complexity, r) == << <<Pick(NUMBERS, r)>>, NextRng(r) >>

\* mixer.rs 159-183: the separator pushed after a word, as <<chars, rng>>
Separator(complexity, r) ==
    IF complexity = "Basic"
    THEN << <<Pick(NUMBERS, r)>>, NextRng(r) >>
    ELSE << <<Pick(SPECIAL_CHARS, r), Pick(NUMBERS, NextRng(r))>>,
            NextRng(NextRng(r)) >>

\* mixer.rs 153: the condition of the whole-word loop
WordLoopCond == len(password) < mixer.length /\ index < Len(available_indices)

\* mixer.rs 153-184: one iteration of the whole-word loop
WholeWordStep ==
    /\ pc = "words"
    /\ WordLoopCond
    /\ index' = index + 1
    /\ iters' = iters + 1
    /\ IF mixer.complexity = "Penguin"
       THEN \* unreachable!()
            /\ pc' = "panic"
            /\ password' = password \o base_input[available_indices[index + 1] + 1]
            /\ rng' = rng
       ELSE LET sep == Separator(mixer.complexity, rng) IN
            /\ password' = password \o base_input[available_indices[index + 1] + 1]
                                    \o sep[1]
            /\ rng' = sep[2]
            /\ pc' = pc
    /\ UNCHANGED <<args, mixer, collected, available_indices, chars, password_chars>>

\* mixer.rs 153, 188: the whole-word loop is over
WholeWordExit ==
    /\ pc = "words"
    /\ ~WordLoopCond
    /\ pc' = "pad"
    /\ UNCHANGED <<args, mixer, collected, rng, locals>>

\* mixer.rs 191-193: one iteration of the padding loop
PadStep ==
    /\ pc = "pad"
    /\ len(password) < mixer.length
    /\ password' = Append(password, Pick(all_chars, rng))
    /\ rng' = NextRng(rng)
    /\ iters' = iters + 1
    /\ UNCHANGED <<args, mixer, collected, pc, available_indices, index, chars,
                   password_chars>>

\* mixer.rs 188-194: nothing (more) to pad
PadExit ==
    /\ pc = "pad"
    /\ ~(len(password) < mixer.length)
    /\ pc' = "truncate"
    /\ UNCHANGED <<args, mixer, collected, rng, locals>>

\* mixer.rs 217-227, 243-253: a pool char, or a lowercase letter when the pool is empty
PoolChar(pool, r) ==
    IF pool # <<>> THEN Pick(pool, r) ELSE Pick(LOWERCASE, r)

\* mixer.rs 208-257: the char pushed when password.len() is n
MixChar(complexity, n, pool, r) ==
    IF complexity = "Basic"
    THEN IF n % 4 = 0 THEN Pick(NUMBERS, r) ELSE PoolChar(pool, r)
    ELSE IF n % 4 = 0 THEN Pick(SPECIAL_CHARS, r)
    ELSE IF n % 4 = 1 THEN Pick(NUMBERS, r)
    ELSE PoolChar(pool, r)

\* mixer.rs 207-258: one iteration of the character-mixing loop
MixStep ==
    /\ pc = "mix"
    /\ len(password) < mixer.length
    /\ iters' = iters + 1
    /\ IF mixer.complexity = "Penguin"
       THEN \* unreachable!()
            /\ pc' = "panic"
            /\ UNCHANGED <<password, rng>>
       ELSE /\ password' = Append(password,
                                  MixChar(mixer.complexity, len(password), chars, rng))
            /\ rng' = NextRng(rng)
            /\ pc' = pc
    /\ UNCHANGED <<args, mixer, collected, available_indices, index, chars,
                   password_chars>>

\* mixer.rs 207: the character-mixing loop is over
MixExit ==
    /\ pc = "mix"
    /\ ~(len(password) < mixer.length)
    /\ pc' = "truncate"
    /\ UNCHANGED <<args, mixer, collected, rng, locals>>

\* mixer.rs 262: password.truncate(self.length)
Truncate ==
    /\ pc = "truncate"
    /\ IF truncate_panics(password, mixer.length)
       THEN /\ pc' = "panic"
            /\ UNCHANGED password
       ELSE /\ pc' = "truncated"
            /\ password' = truncate(password, mixer.length)
    /\ UNCHANGED <<args, mixer, collected, rng, available_indices, index, chars,
                   password_chars, iters>>

\* mixer.rs 263-265: password_chars = password.chars().collect(); shuffle
Shuffle ==
    /\ pc = "truncated"
    /\ mixer.complexity = "Hard"
    /\ LET sh == shuffle(password, rng) IN
         /\ password_chars' = sh[1]
         /\ rng' = sh[2]
    /\ pc' = "shuffled"
    /\ UNCHANGED <<args, mixer, collected, password, available_indices, index,
                   chars, iters>>

\* mixer.rs 266, 269 returning into lib.rs 98
ReturnShuffled ==
    /\ pc = "shuffled"
    /\ password' = password_chars
    /\ collected' = Append(collected, password_chars)
    /\ pc' = "loop"
    /\ UNCHANGED <<args, mixer, rng, available_indices, index, chars,
                   password_chars, iters>>

\* mixer.rs 263, 269 returning into lib.rs 98
ReturnRegular ==
    /\ pc = "truncated"
    /\ mixer.complexity # "Hard"
    /\ collected' = Append(collected, password)
    /\ pc' = "loop"
    /\ UNCHANGED <<args, mixer, rng, locals>>

Next ==
    \/ GeneratePassword
    \/ GenerateReturn
    \/ MixPassword
    \/ PenguinStep
    \/ PenguinReturn
    \/ BeginRegular
    \/ WholeWordStep
    \/ WholeWordExit
    \/ PadStep
    \/ PadExit
    \/ MixStep
    \/ MixExit
    \/ Truncate
    \/ Shuffle
    \/ ReturnShuffled
    \/ ReturnRegular

Spec == Init /\ [][Next]_vars

TypeOK ==
    /\ pc \in {"start", "loop", "penguin", "regular", "words", "pad", "mix",
               "truncate", "truncated", "shuffled", "returned", "panic"}
    /\ rng \in 0..(RngMod - 1)
    /\ Len(collected) <= count

\* ====================================================================
\* Properties
\* ====================================================================
Digits   == {"0","1","2","3","4","5","6","7","8","9"}
Specials == {"!","@","#","$","%","^","&","*"}
Lowers   == Range(LOWERCASE)
Uppers   == Range(UPPERCASE)
Superset == Lowers \cup Uppers \cup Digits \cup Specials

Occurrences(c, s) == Cardinality({i \in 1..Len(s) : s[i] = c})

IsPermutation(a, b) ==
    /\ Len(a) = Len(b)
    /\ \A c \in Range(a) \cup Range(b) : Occurrences(c, a) = Occurrences(c, b)

Returned(i) == collected[i]

\* C1: with an empty base-word list every password returned is the empty
\* string, for every complexity (Penguin included), flag and length, and no
\* generation branch is ever entered.
C1_EmptyInputEmptyString ==
    base_input = <<>> =>
        /\ pc \in {"start", "loop", "returned"}
        /\ \A i \in 1..Len(collected) : Returned(i) = <<>>

C1_Witness ==
    /\ base_input = <<>>
    /\ mixer.complexity = "Penguin"
    /\ pc = "returned"
    /\ Len(collected) >= 1

\* C2: with a non-empty base-word list and complexity Penguin every password
\* returned has exactly 64 characters, all from the 70-character superset
\* (26 lowercase, 26 uppercase, 10 digits, 8 specials), whatever the length
\* and the whole-word flag.
C2_PenguinShape ==
    /\ Cardinality(Superset) = 70
    /\ Cardinality(Lowers) = 26 /\ Cardinality(Uppers) = 26
    /\ Cardinality(Digits) = 10 /\ Cardinality(Specials) = 8
    /\ (mixer.complexity = "Penguin" /\ base_input # <<>>) =>
          \A i \in 1..Len(collected) :
              /\ Len(Returned(i)) = 64
              /\ \A k \in 1..Len(Returned(i)) : Returned(i)[k] \in Superset

C2_Witness ==
    /\ mixer.complexity = "Penguin"
    /\ base_input # <<>>
    /\ mixer.length # 64
    /\ pc = "returned"
    /\ Len(collected) >= 1
    /\ \E k \in 1..64 : collected[1][k] \in Specials

\* C3: for Basic, Medium and Hard and a non-empty base-word list every
\* password returned has exactly mixer.length characters.
C3_ExactLength ==
    (mixer.complexity \in {"Basic", "Medium", "Hard"} /\ base_input # <<>>) =>
        \A i \in 1..Len(collected) : Len(Returned(i)) = mixer.length

\* C4: mix_password never panics: neither unreachable!() nor the final
\* truncate fails, for any configuration and any base words.
C4_NeverPanics == pc # "panic"

\* C5: the mixer used is the supplied value of each set option and
\* Medium / true / 12 for each unset one, in all 8 combinations, and it is
\* the same mixer for every password of the call.
C5_ResolvedMixer ==
    pc # "start" =>
        /\ mixer.complexity =
              (IF arg_complexity = None THEN "Medium" ELSE arg_complexity[1])
        /\ mixer.use_whole_words =
              (IF arg_use_whole_words = None THEN TRUE ELSE arg_use_whole_words[1])
        /\ mixer.length = (IF arg_length = None THEN 12 ELSE arg_length[1])

C5_Witness ==
    /\ pc = "returned"
    /\ count >= 2
    /\ Len(collected) = count
    /\ arg_complexity = None
    /\ arg_use_whole_words = None
    /\ arg_length # None
    /\ arg_length # Some(12)
    /\ base_input # <<>>
    /\ \A i \in 1..count : len(collected[i]) = arg_length[1]

\* C6: with use_whole_words the password keeps its complete words and
\* separators (and so may be longer than the requested length): the final
\* truncation removes nothing; with character mixing the returned String
\* has exactly the requested len().
C6_WholeWordsKept ==
    [][(pc = "truncate" /\ pc' = "truncated") =>
         IF mixer.use_whole_words
         THEN password' = password
         ELSE len(password') = mixer.length]_vars

\* What the code does instead of C6: a returned password is never longer
\* than the requested length.
C6_NeverLonger ==
    (mixer.complexity \in {"Basic", "Medium", "Hard"}) =>
        \A i \in 1..Len(collected) : Len(Returned(i)) <= mixer.length

\* C7: for Hard the password returned is a permutation (same length, same
\* multiset of characters) of the truncated password; for Basic and Medium
\* the truncated password is returned as it is.
C7_ShufflePermutes ==
    [][/\ (pc = "truncated" /\ mixer.complexity = "Hard") =>
             (pc' = "shuffled" /\ password' = password /\ collected' = collected)
       /\ pc = "shuffled" =>
             /\ IsPermutation(password', password)
             /\ collected' = Append(collected, password')
       /\ (pc = "truncated" /\ mixer.complexity \in {"Basic", "Medium"}) =>
             collected' = Append(collected, password)]_vars

C7_Witness ==
    /\ pc = "shuffled"
    /\ mixer.complexity = "Hard"
    /\ Len(password) >= 3
    /\ password_chars # password

\* the built string from char p on is the words at available_indices[i..index],
\* each followed by its separator, then padding
SepLen(complexity) == IF complexity = "Basic" THEN 1 ELSE 2

SepOK(complexity, s) ==
    IF complexity = "Basic"
    THEN Len(s) = 1 /\ s[1] \in Digits
    ELSE Len(s) = 2 /\ s[1] \in Specials /\ s[2] \in Digits

RECURSIVE ShapeFrom(_, _)
ShapeFrom(p, i) ==
    IF i > index
    THEN \* padding: superset chars, only after the last word, each pushed
         \* while the length was below the target
         /\ \A k \in (p + 1)..Len(password) : password[k] \in Superset
         /\ Len(password) > p =>
               /\ index = Len(base_input)
               /\ \A k \in (p + 1)..Len(password) :
                     len(SubSeq(password, 1, k - 1)) < mixer.length
                     /\ Len(SubSeq(password, 1, k - 1)) < mixer.length
    ELSE LET w == base_input[available_indices[i] + 1]
             q == p + Len(w) + SepLen(mixer.complexity)
         IN  /\ Len(password) >= q
             /\ SubSeq(password, p + 1, p + Len(w)) = w
             /\ SepOK(mixer.complexity, SubSeq(password, p + Len(w) + 1, q))
             /\ len(SubSeq(password, 1, p)) < mixer.length
             /\ Len(SubSeq(password, 1, p)) < mixer.length
             /\ ShapeFrom(q, i + 1)

\* C8: in the whole-word strategy the string built before truncation is
\* w1 s1 ... wk sk followed by padding: the words sit at pairwise distinct
\* positions of the input, each word (the last too) is followed by exactly one
\* separator (Basic: a digit; Medium, Hard: a special then a digit), a word is
\* appended only while the built length is below the target, and padding from
\* the superset appears only after all words, while the length is below the
\* target.
C8_WholeWordShape ==
    (pc \in {"words", "pad", "truncate"} /\ mixer.use_whole_words) =>
        /\ index <= Len(available_indices)
        /\ Len(available_indices) = Len(base_input)
        /\ \A i \in 1..Len(available_indices) :
              available_indices[i] \in 0..(Len(base_input) - 1)
        /\ \A i, j \in 1..index :
              i # j => available_indices[i] # available_indices[j]
        /\ ShapeFrom(0, 1)

C8_Witness ==
    /\ pc = "truncate"
    /\ mixer.use_whole_words
    /\ mixer.complexity = "Medium"
    /\ index = 2
    /\ available_indices = <<1, 0>>
    /\ base_input[1] # base_input[2]
    /\ iters > index

\* the class of the char at 0-based index n of a character-mixing password
Pool == UNION {Range(base_input[j]) : j \in 1..Len(base_input)}

PoolClass == IF Pool = {} THEN Lowers ELSE Pool

ClassAt(complexity, n) ==
    IF complexity = "Basic"
    THEN IF n % 4 = 0 THEN Digits ELSE PoolClass
    ELSE IF n % 4 = 0 THEN Specials
    ELSE IF n % 4 = 1 THEN Digits
    ELSE PoolClass

\* C9: a character-mixing password of complexity Basic or Medium has, at
\* every index n, a character of the class n mod 4 selects (Basic: 0 a digit,
\* else the pool; Medium: 0 a special, 1 a digit, else the pool; lowercase
\* letters stand in for an empty pool).
C9_ClassPattern ==
    (mixer.complexity \in {"Basic", "Medium"} /\ ~mixer.use_whole_words
       /\ base_input # <<>>) =>
        \A i \in 1..Len(collected) :
            \A k \in 1..Len(Returned(i)) :
                Returned(i)[k] \in ClassAt(mixer.complexity, k - 1)

\* the loops of mix_password
InLoop == pc \in {"penguin", "words", "pad", "mix"}

IterationBound ==
    /\ pc \in {"words", "pad", "mix", "truncate", "truncated", "shuffled", "panic"} =>
          iters <= mixer.length + Len(base_input)
    /\ pc = "penguin" => iters <= 64

LoopProgress ==
    /\ (InLoop /\ pc' = pc) =>
          /\ iters' = iters + 1
          /\ len(password') > len(password) \/ index' > index
    /\ (pc = "penguin" /\ pc' # "penguin") => iters = 64

\* C10: every call terminates: each loop iteration strictly increases the
\* built length or the word index, the iterations of one mix_password call
\* number at most length + number of base words, the Penguin loop runs
\* exactly 64 times.
C10_Terminates ==
    /\ []IterationBound
    /\ [][LoopProgress]_vars

C10_Witness ==
    /\ pc = "returned"
    /\ count >= 2
    /\ Len(collected) = count
    /\ base_input # <<>>
    /\ mixer.use_whole_words
    /\ mixer.complexity = "Hard"
    /\ mixer.length > 0

====
